---- MODULE Spec2Model ----
(***************************************************************************)
(* The A2A request handler of src/mastra/agents/planner-agent.ts           *)
(* (a2aAgentRoute.handler, lines 44-256) as a state machine.               *)
(*                                                                         *)
(* One handler instance runs per request.  It is an async function with    *)
(* two suspension points: `await c.req.json()` (line 51) and               *)
(* `await agent.generate(...)` (line 149).  Each action below is the code  *)
(* the handler runs between two suspension points, along one path.         *)
(*                                                                         *)
(* JavaScript values are modelled as follows.  Strings are TLA+ strings.   *)
(* `undefined` and `null` are the tokens Undef and Null.  A value whose    *)
(* JavaScript type the code depends on (the body, params, message, parts,  *)
(* a part, the configuration, the agent's response, a thrown value) is a   *)
(* record with a "type" field; the fields of a value that is not an object *)
(* read as Undef, as property access on a primitive does.                  *)
(***************************************************************************)
EXTENDS Integers, Sequences, FiniteSets, TLC

VARIABLES
    pc,            \* per request: "idle", "parsing", "awaiting", "done"
    req,           \* per request: the agentId path parameter and the posted body
    requestId,     \* per request: `let requestId` (line 45)
    currentTaskId, \* per request: `const currentTaskId` (line 133)
    conversationContext, \* per request: `const conversationContext` (line 134)
    generateCalls, \* per request: the arguments of every agent.generate call made
    agentResponse, \* per request: `const response` (line 149), once generate resolved
    responses,     \* per request: the (status, body) pairs passed to c.json and returned
    escaped,       \* per request: an exception left the handler
    caught,        \* per request: the value bound by `catch (error)` (line 238)
    logs           \* per request: console.log / console.error lines written

vars == <<pc, req, requestId, currentTaskId, conversationContext,
          generateCalls, agentResponse, responses, escaped, caught, logs>>

----------------------------------------------------------------------------
(* Bounds of the model *)

NumReqs == 2    \* handler instances that exist
MaxParts == 2   \* longest message.parts array posted
MaxTools == 1   \* longest toolResults array the agent returns

Reqs == 1..NumReqs

----------------------------------------------------------------------------
(* JavaScript values *)

Undef == "<undefined>"
Null == "<null>"

\* `!v` is false: v is neither undefined, null nor the empty string
Truthy(v) == v \notin {Undef, Null, ""}

\* `a || b` for string-like values
OrElse(a, b) == IF Truthy(a) THEN a ELSE b

\* JSON values carried by a data part
JUndef == [j |-> "undefined", k |-> "", v |-> ""]
JStr(s) == [j |-> "string", k |-> "", v |-> s]
JObj(key, num) == [j |-> "object", k |-> key, v |-> num]  \* {key: num}

\* JSON.stringify(data) (line 143)
JSONStringify(data) ==
    CASE data.j = "undefined" -> Undef
      [] data.j = "string" -> "\"" \o data.v \o "\""
      [] data.j = "object" -> "{\"" \o data.k \o "\":" \o data.v \o "}"

\* message parts
PNull == [type |-> "null", kind |-> Undef, text |-> Undef, data |-> JUndef]
TextPart(t) == [type |-> "object", kind |-> "text", text |-> t, data |-> JUndef]
DataPart(d) == [type |-> "object", kind |-> "data", text |-> Undef, data |-> d]
OtherPart(k) == [type |-> "object", kind |-> k, text |-> Undef, data |-> JUndef]

PartsUndef == [type |-> "undefined", items |-> <<>>]
PartsString == [type |-> "string", items |-> <<>>]   \* parts: "abc"
PartsArray(s) == [type |-> "array", items |-> s]

\* thrown values
ErrorObj(msg) == [type |-> "object", message |-> msg]  \* an Error
ThrownString == [type |-> "string", message |-> Undef] \* throw "boom"
ThrownUndef == [type |-> "undefined", message |-> Undef] \* Promise.reject()
NoError == [type |-> "none", message |-> Undef]


\* configuration
ConfUndef == [type |-> "undefined", blocking |-> Undef, url |-> Undef]
Conf(b, u) == [type |-> "object", blocking |-> b, url |-> u]

\* params.message
MsgUndef ==
    [type |-> "undefined", kind |-> Undef, role |-> Undef, parts |-> PartsUndef,
     taskId |-> Undef, contextId |-> Undef, messageId |-> Undef]
MsgString == [MsgUndef EXCEPT !.type = "string"]   \* message: "hello"
Msg(kind, role, parts, taskId, contextId, messageId) ==
    [type |-> "object", kind |-> kind, role |-> role, parts |-> parts,
     taskId |-> taskId, contextId |-> contextId, messageId |-> messageId]

\* params
ParamsUndef == [type |-> "undefined", message |-> MsgUndef, configuration |-> ConfUndef]
Params(m, c) == [type |-> "object", message |-> m, configuration |-> c]

\* the parsed body
BodyNull ==
    [type |-> "null", jsonrpc |-> Undef, id |-> Undef, method |-> Undef,
     params |-> ParamsUndef]
BodyNumber == [BodyNull EXCEPT !.type = "number"]   \* the body `5`
Body(jsonrpc, id, method, params) ==
    [type |-> "object", jsonrpc |-> jsonrpc, id |-> id, method |-> method,
     params |-> params]

\* what the agent resolves with
ToolsUndef == [type |-> "undefined", items |-> <<>>]
ToolsArray(s) == [type |-> "array", items |-> s]
RespUndef == [type |-> "undefined", text |-> Undef, toolResults |-> ToolsUndef]
NoResp == [type |-> "none", text |-> Undef, toolResults |-> ToolsUndef]
Resp(text, tools) == [type |-> "object", text |-> text, toolResults |-> tools]

----------------------------------------------------------------------------
(* The requests, agent results and failures the model draws from *)

SeqsUpTo(S, n) == UNION {[1..k -> S] : k \in 0..n}

ReqIdOf(r) == "req-" \o ToString(r)
TaskIdOf(r) == "task-" \o ToString(r)
ContextIdOf(r) == "ctx-" \o ToString(r)
MessageIdOf(r) == "msg-" \o ToString(r)
ReplyOf(r) == "plan-" \o ToString(r)

PartValues ==
    {PNull, TextPart("a"), DataPart(JObj("x", "1")), DataPart(JStr("hi")),
     OtherPart("file")}

PartsValues == {PartsString} \cup {PartsArray(s) : s \in SeqsUpTo(PartValues, MaxParts)}

Configs ==
    {ConfUndef, Conf("true", Undef), Conf("false", Undef),
     Conf("false", "https://hook.example/cb")}

\* messages that pass or fail each clause of the two message checks
MessageSamples(r) ==
    LET one == PartsArray(<<TextPart("a")>>) IN
    {MsgUndef, MsgString,
     Msg("task", "user", one, TaskIdOf(r), ContextIdOf(r), MessageIdOf(r)),
     Msg("message", Undef, one, TaskIdOf(r), ContextIdOf(r), MessageIdOf(r)),
     Msg("message", "", one, Undef, Undef, Undef),
     Msg("message", "user", PartsUndef, TaskIdOf(r), Undef, Undef),
     Msg("message", "agent", one, TaskIdOf(r), ContextIdOf(r), MessageIdOf(r))}

\* well-shaped messages with every parts value and every identifier choice
MessagesFull(r) ==
    {Msg("message", "user", p, t, c, m) :
        p \in PartsValues, t \in {Undef, "", TaskIdOf(r)},
        c \in {Undef, "", ContextIdOf(r)}, m \in {Undef, "", MessageIdOf(r)}}

Input(agentId, parses, body) == [agentId |-> agentId, parses |-> parses, body |-> body]
IdleInput == Input("plannerAgent", FALSE, BodyNull)

\* every envelope defect, crossed with the message samples and both agent ids
EnvelopeCases(r) ==
    {Input(a, FALSE, BodyNull) : a \in {"plannerAgent", "ghost"}}
    \cup {Input(a, TRUE, b) : a \in {"plannerAgent", "ghost"}, b \in {BodyNull, BodyNumber}}
    \cup {Input(a, TRUE, Body(j, i, m, p)) :
            a \in {"plannerAgent", "ghost"}, j \in {"2.0", "1.0", Undef},
            i \in {Undef, "", ReqIdOf(r)}, m \in {"message/send", "generate", Undef},
            p \in {ParamsUndef} \cup {Params(msg, ConfUndef) : msg \in MessageSamples(r)}}

\* a valid envelope to a registered agent, with every message and configuration
MessageCases(r) ==
    {Input("plannerAgent", TRUE, Body("2.0", ReqIdOf(r), "message/send", Params(m, c))) :
        m \in MessagesFull(r), c \in Configs}

Inputs(r) == EnvelopeCases(r) \cup MessageCases(r)

\* the requests of the concurrent specification: one per path of the handler
ConcInputs(r) ==
    LET one == PartsArray(<<TextPart("a")>>)
        ok(m, c) == Input("plannerAgent", TRUE,
                          Body("2.0", ReqIdOf(r), "message/send", Params(m, c)))
    IN {Input("plannerAgent", FALSE, BodyNull),
        Input("plannerAgent", TRUE, BodyNull),
        Input("plannerAgent", TRUE, Body("2.0", Undef, "message/send", ParamsUndef)),
        Input("plannerAgent", TRUE, Body("2.0", ReqIdOf(r), "generate", ParamsUndef)),
        Input("ghost", TRUE, Body("2.0", ReqIdOf(r), "message/send", ParamsUndef)),
        ok(MsgUndef, ConfUndef),
        ok(Msg("message", Undef, one, Undef, Undef, Undef), ConfUndef),
        ok(Msg("message", "user", PartsString, Undef, Undef, Undef), ConfUndef),
        ok(Msg("message", "user", one, TaskIdOf(r), Undef, MessageIdOf(r)),
           Conf("false", "https://hook.example/cb"))}

ToolResultValues == {[name |-> "search"], [name |-> Undef]}

AgentResponses(r) ==
    {Resp(t, tr) :
        t \in {Undef, "", ReplyOf(r)},
        tr \in {ToolsUndef} \cup {ToolsArray(s) : s \in SeqsUpTo(ToolResultValues, MaxTools)}}

AgentFailures(r) ==
    {ErrorObj("model unavailable for " \o ReqIdOf(r)), ThrownString, ThrownUndef}

\* the SyntaxError c.req.json() rejects with
ParseError == ErrorObj("Unexpected token in JSON")
\* the TypeError of destructuring null (line 52)
DestructureError == ErrorObj("Cannot destructure property 'jsonrpc' of null")
\* the TypeError of message.parts.map / part.kind (lines 140-142)
MapError == ErrorObj("Cannot read properties or call map")
\* the TypeError of response.text on an undefined response (line 151)
ResponseError == ErrorObj("Cannot read properties of undefined (reading 'text')")

----------------------------------------------------------------------------
(* The collaborators *)

RegisteredAgents == {"plannerAgent"}

\* mastra.getAgent(agentId) (line 85): the agent, or undefined
GetAgent(agentId) == IF agentId \in RegisteredAgents THEN agentId ELSE Undef

\* randomUUID(): a value no other call returns; calls are told apart by the
\* request that makes them and the place that makes them
RandomUUID(r, use) == "uuid-" \o ToString(r) \o "-" \o use

----------------------------------------------------------------------------
(* The checks of the handler, in the order of the code *)

\* line 55, negated: `jsonrpc !== "2.0" || !requestId`
EnvelopeOk(body) == body.jsonrpc = "2.0" /\ Truthy(body.id)

\* line 71, negated: `method !== "message/send"`
MethodOk(body) == body.method = "message/send"

\* line 86, negated: `!agent`
AgentFound(agentId) == Truthy(GetAgent(agentId))

\* line 100: `const { message, configuration } = params || {}`
ParamsOrEmpty(params) == IF params.type = "object" THEN params ELSE ParamsUndef

\* line 103, negated: `!message || typeof message !== "object"`
MessageIsObject(message) == message.type = "object"

\* `!message.parts` is false: an array (even an empty one) or a non-empty string
PartsTruthy(parts) == parts.type \in {"array", "string"}

\* the check of line 118 with the role clause left out
MessageShapeOkNoRole(message) == message.kind = "message" /\ PartsTruthy(message.parts)
\* line 118, negated: `message.kind !== "message" || !message.role || !message.parts`
MessageShapeOk(message) ==
    message.kind = "message" /\ Truthy(message.role) /\ PartsTruthy(message.parts)

----------------------------------------------------------------------------
(* Identifier derivation and message translation *)

\* line 133 with the supplied taskId ignored
CurrentTaskIdAlwaysFresh(message, r) == RandomUUID(r, "task")
\* line 133: `message.taskId || randomUUID()`
CurrentTaskId(message, r) == OrElse(message.taskId, RandomUUID(r, "task"))

\* line 134: `message.contextId || randomUUID()`
ConversationContext(message, r) == OrElse(message.contextId, RandomUUID(r, "context"))

\* the callback with the data branch (line 143) left out
PartContributionNoData(part) == IF part.kind = "text" THEN part.text ELSE ""
\* lines 141-145: the callback given to map
PartContribution(part) ==
    IF part.kind = "text" THEN part.text
    ELSE IF part.kind = "data" THEN JSONStringify(part.data)
    ELSE ""

\* lines 140-142: `message.parts.map(...)` throws a TypeError when parts has no
\* map method or when an element is null (`part.kind` of null)
MapThrows(parts) ==
    \/ parts.type # "array"
    \/ \E i \in 1..Len(parts.items) : parts.items[i].type = "null"

\* Array.prototype.map
Map(items) == [i \in 1..Len(items) |-> PartContribution(items[i])]

\* Array.prototype.join: undefined and null elements count as empty strings
RECURSIVE Join(_, _)
Join(elems, sep) ==
    IF Len(elems) = 0 THEN ""
    ELSE LET head == IF Head(elems) \in {Undef, Null} THEN "" ELSE Head(elems)
         IN IF Len(elems) = 1 THEN head
            ELSE head \o sep \o Join(Tail(elems), sep)

\* lines 137-147: the message handed to the agent
MastraMessage(message) ==
    [role |-> message.role,
     content |-> LET joined == Join(Map(message.parts.items), "\n")
                 IN IF joined = "" THEN "" ELSE joined]

----------------------------------------------------------------------------
(* Responses *)

NoErr == [code |-> 0, message |-> "", hasData |-> FALSE, details |-> Undef]
NoResult ==
    [id |-> Undef, contextId |-> Undef,
     status |-> [state |-> Undef, timestamp |-> Undef,
                 message |-> [messageId |-> Undef, role |-> Undef, parts |-> <<>>,
                              kind |-> Undef]],
     artifacts |-> <<>>, history |-> <<>>, kind |-> Undef]

\* c.json({jsonrpc, id, error: {code, message}}, status)
ErrorResponse(status, id, code, message) ==
    [status |-> status,
     body |-> [jsonrpc |-> "2.0", id |-> id, keys |-> {"jsonrpc", "id", "error"},
               error |-> [code |-> code, message |-> message, hasData |-> FALSE,
                          details |-> Undef],
               result |-> NoResult]]

\* lines 241-254: the response of the catch block
InternalErrorResponse(id, error) ==
    [status |-> 500,
     body |-> [jsonrpc |-> "2.0", id |-> id, keys |-> {"jsonrpc", "id", "error"},
               error |-> [code |-> -32603, message |-> "Internal error",
                          hasData |-> TRUE, details |-> error.message],
               result |-> NoResult]]

\* line 151: `response.text || ""`
AgentText(response) == OrElse(response.text, "")

\* lines 155-170
Artifacts(response, r) ==
    IF response.toolResults.type = "array" /\ Len(response.toolResults.items) > 0
    THEN [i \in 1..Len(response.toolResults.items) |->
            LET result == response.toolResults.items[i] IN
            [artifactId |-> RandomUUID(r, "artifact-" \o ToString(i)),
             name |-> OrElse(result.name, "ToolResult"),
             parts |-> <<[kind |-> "data", data |-> result]>>]]
    ELSE <<>>

AgentParts(agentText) == PartsArray(<<TextPart(agentText)>>)

\* the history with the inbound entry (lines 174-180) left out
HistoryReplyOnly(message, taskId, agentText, responseMessageId, r) ==
    <<[kind |-> "message", role |-> "agent", parts |-> AgentParts(agentText),
       messageId |-> responseMessageId, taskId |-> taskId]>>
\* lines 173-193
History(message, taskId, agentText, responseMessageId, r) ==
    <<[kind |-> "message", role |-> message.role, parts |-> message.parts,
       messageId |-> OrElse(message.messageId, RandomUUID(r, "message")),
       taskId |-> taskId],
      [kind |-> "message", role |-> "agent", parts |-> AgentParts(agentText),
       messageId |-> responseMessageId, taskId |-> taskId]>>

\* lines 196-221
A2AResponse(id, taskId, contextId, agentText, responseMessageId, artifacts, history) ==
    [status |-> 200,
     body |-> [jsonrpc |-> "2.0", id |-> id, keys |-> {"jsonrpc", "id", "result"},
               error |-> NoErr,
               result |->
                 [id |-> taskId, contextId |-> contextId,
                  status |-> [state |-> "completed", timestamp |-> "now",
                              message |-> [messageId |-> responseMessageId,
                                           role |-> "agent",
                                           parts |-> AgentParts(agentText),
                                           kind |-> "message"]],
                  artifacts |-> artifacts, history |-> history, kind |-> "task"]]]

\* lines 225-232: what the non-blocking branch writes to the console
WebhookLog(configuration) ==
    IF configuration.blocking = "false" /\ Truthy(configuration.url)
    THEN <<"Non-blocking request with webhook: " \o configuration.url>>
    ELSE <<>>

\* the non-blocking branch answering with a task still at work
ReturnedDeferred(configuration, a2aResponse) ==
    IF configuration.blocking = "false"
    THEN [a2aResponse EXCEPT !.body.result.status.state = "working",
                             !.body.result.history = <<>>]
    ELSE a2aResponse
\* lines 223-237: what the handler returns once a2aResponse is built; the
\* non-blocking branch changes nothing of it
Returned(configuration, a2aResponse) == a2aResponse

----------------------------------------------------------------------------
(* The handler *)

BodyOf(r) == req[r].body
MessageOf(r) == ParamsOrEmpty(req[r].body.params).message
ConfigurationOf(r) == ParamsOrEmpty(req[r].body.params).configuration

\* `${v}` in a template literal
TemplateText(v) == IF v = Undef THEN "undefined" ELSE v

\* `requestId` declared outside the handler, one variable for all requests:
\* a read after the await sees what another request assigned
RequestIdOfLastParsed(r) ==
    LET parsed == {q \in Reqs : pc[q] \in {"awaiting", "done"} /\ req[q].parses}
    IN requestId[CHOOSE q \in parsed : \A p \in parsed : p <= q]
\* a read of `requestId` (declared inside the handler, line 45) after the
\* await of line 149 (lines 198 and 244)
RequestIdOf(r) == requestId[r]

Emit(r, response) == responses' = [responses EXCEPT ![r] = Append(@, response)]

Finish(r) == pc' = [pc EXCEPT ![r] = "done"]

\* lines 238-255: console.error, then c.json of the internal error.  Reading
\* `error.message` of undefined or null throws a TypeError inside the catch
\* block, which nothing catches.
Catch(r, id, error) ==
    /\ caught' = [caught EXCEPT ![r] = error]
    /\ logs' = [logs EXCEPT ![r] = Append(@, "A2A Agent Route Error:")]
    /\ IF error.type \in {"undefined", "null"}
       THEN /\ escaped' = [escaped EXCEPT ![r] = TRUE]
            /\ UNCHANGED responses
       ELSE /\ Emit(r, InternalErrorResponse(id, error))
            /\ UNCHANGED escaped
    /\ Finish(r)

\* c.json(...) of a validation error, and return
Reject(r, response) ==
    /\ requestId' = [requestId EXCEPT ![r] = BodyOf(r).id]
    /\ Emit(r, response)
    /\ Finish(r)
    /\ UNCHANGED <<req, currentTaskId, conversationContext, generateCalls,
                   agentResponse, escaped, caught, logs>>

\* line 51: c.req.json() rejects
ParseFails(r) ==
    /\ pc[r] = "parsing"
    /\ ~req[r].parses
    /\ Catch(r, requestId[r], ParseError)
    /\ UNCHANGED <<req, requestId, currentTaskId, conversationContext,
                   generateCalls, agentResponse>>

\* line 52: the body is null and cannot be destructured
DestructureFails(r) ==
    /\ pc[r] = "parsing"
    /\ req[r].parses
    /\ BodyOf(r).type = "null"
    /\ Catch(r, requestId[r], DestructureError)
    /\ UNCHANGED <<req, requestId, currentTaskId, conversationContext,
                   generateCalls, agentResponse>>

\* lines 51-53 have run: the body is parsed and destructured
Parsed(r) == pc[r] = "parsing" /\ req[r].parses /\ BodyOf(r).type # "null"

\* lines 55-68
RejectInvalidRequest(r) ==
    /\ Parsed(r)
    /\ ~EnvelopeOk(BodyOf(r))
    /\ Reject(r, ErrorResponse(400, OrElse(BodyOf(r).id, Null), -32600,
                 "Invalid Request: jsonrpc must be \"2.0\" and id is required"))

\* lines 71-83
RejectInvalidMethod(r) ==
    /\ Parsed(r)
    /\ EnvelopeOk(BodyOf(r))
    /\ ~MethodOk(BodyOf(r))
    /\ Reject(r, ErrorResponse(400, BodyOf(r).id, -32601,
                 "Invalid method: expected \"message/send\", got \""
                    \o TemplateText(BodyOf(r).method) \o "\""))

\* lines 85-98
RejectAgentNotFound(r) ==
    /\ Parsed(r)
    /\ EnvelopeOk(BodyOf(r))
    /\ MethodOk(BodyOf(r))
    /\ ~AgentFound(req[r].agentId)
    /\ Reject(r, ErrorResponse(404, BodyOf(r).id, -32602,
                 "Agent '" \o req[r].agentId \o "' not found"))

Routed(r) ==
    /\ Parsed(r)
    /\ EnvelopeOk(BodyOf(r))
    /\ MethodOk(BodyOf(r))
    /\ AgentFound(req[r].agentId)

\* lines 100-115
RejectMessageRequired(r) ==
    /\ Routed(r)
    /\ ~MessageIsObject(MessageOf(r))
    /\ Reject(r, ErrorResponse(400, BodyOf(r).id, -32602,
                 "Invalid params: message is required"))

\* lines 118-131
RejectInvalidMessage(r) ==
    /\ Routed(r)
    /\ MessageIsObject(MessageOf(r))
    /\ ~MessageShapeOk(MessageOf(r))
    /\ Reject(r, ErrorResponse(400, BodyOf(r).id, -32602,
                 "Invalid message: must have kind \"message\", role, and parts array"))

Validated(r) ==
    /\ Routed(r)
    /\ MessageIsObject(MessageOf(r))
    /\ MessageShapeOk(MessageOf(r))

\* lines 133-147, when building mastraMessage throws
TranslateThrows(r) ==
    /\ Validated(r)
    /\ MapThrows(MessageOf(r).parts)
    /\ requestId' = [requestId EXCEPT ![r] = BodyOf(r).id]
    /\ currentTaskId' = [currentTaskId EXCEPT ![r] = CurrentTaskId(MessageOf(r), r)]
    /\ conversationContext' =
          [conversationContext EXCEPT ![r] = ConversationContext(MessageOf(r), r)]
    /\ Catch(r, BodyOf(r).id, MapError)
    /\ UNCHANGED <<req, generateCalls, agentResponse>>

\* lines 133-149, up to the await: agent.generate([mastraMessage]) is called
CallGenerate(r) ==
    /\ Validated(r)
    /\ ~MapThrows(MessageOf(r).parts)
    /\ requestId' = [requestId EXCEPT ![r] = BodyOf(r).id]
    /\ currentTaskId' = [currentTaskId EXCEPT ![r] = CurrentTaskId(MessageOf(r), r)]
    /\ conversationContext' =
          [conversationContext EXCEPT ![r] = ConversationContext(MessageOf(r), r)]
    /\ generateCalls' =
          [generateCalls EXCEPT ![r] = Append(@, <<MastraMessage(MessageOf(r))>>)]
    /\ pc' = [pc EXCEPT ![r] = "awaiting"]
    /\ UNCHANGED <<req, agentResponse, responses, escaped, caught, logs>>

\* lines 149-237: generate resolves with a response object
GenerateResolves(r) ==
    /\ pc[r] = "awaiting"
    /\ \E resolved \in AgentResponses(r) :
          LET agentText == AgentText(resolved)
              responseMessageId == RandomUUID(r, "reply")
              artifacts == Artifacts(resolved, r)
              history == History(MessageOf(r), currentTaskId[r], agentText,
                                 responseMessageId, r)
              a2aResponse == A2AResponse(RequestIdOf(r), currentTaskId[r],
                                         conversationContext[r], agentText,
                                         responseMessageId, artifacts, history)
          IN /\ agentResponse' = [agentResponse EXCEPT ![r] = resolved]
             /\ logs' = [logs EXCEPT ![r] = @ \o WebhookLog(ConfigurationOf(r))]
             /\ Emit(r, Returned(ConfigurationOf(r), a2aResponse))
    /\ Finish(r)
    /\ UNCHANGED <<req, requestId, currentTaskId, conversationContext,
                   generateCalls, escaped, caught>>

\* lines 149-151: generate resolves with undefined, so `response.text` throws
GenerateResolvesUndefined(r) ==
    /\ pc[r] = "awaiting"
    /\ agentResponse' = [agentResponse EXCEPT ![r] = RespUndef]
    /\ Catch(r, RequestIdOf(r), ResponseError)
    /\ UNCHANGED <<req, requestId, currentTaskId, conversationContext, generateCalls>>

\* line 149: generate rejects
GenerateRejects(r) ==
    /\ pc[r] = "awaiting"
    /\ \E error \in AgentFailures(r) : Catch(r, RequestIdOf(r), error)
    /\ UNCHANGED <<req, requestId, currentTaskId, conversationContext,
                   generateCalls, agentResponse>>

----------------------------------------------------------------------------
(* Specifications *)

InitLocals ==
    /\ requestId = [r \in Reqs |-> Null]
    /\ currentTaskId = [r \in Reqs |-> Undef]
    /\ conversationContext = [r \in Reqs |-> Undef]
    /\ generateCalls = [r \in Reqs |-> <<>>]
    /\ agentResponse = [r \in Reqs |-> NoResp]
    /\ responses = [r \in Reqs |-> <<>>]
    /\ escaped = [r \in Reqs |-> FALSE]
    /\ caught = [r \in Reqs |-> NoError]
    /\ logs = [r \in Reqs |-> <<>>]

\* one request, drawn from every input of the model
Init ==
    /\ pc = [r \in Reqs |-> IF r = 1 THEN "parsing" ELSE "idle"]
    /\ req \in {[r \in Reqs |-> IF r = 1 THEN i ELSE IdleInput] : i \in Inputs(1)}
    /\ InitLocals

\* every handler instance has a request in flight
InitConc ==
    /\ pc = [r \in Reqs |-> "parsing"]
    /\ req \in {f \in [Reqs -> UNION {ConcInputs(r) : r \in Reqs}] :
                  \A r \in Reqs : f[r] \in ConcInputs(r)}
    /\ InitLocals

Next ==
    \E r \in Reqs :
        \/ ParseFails(r)
        \/ DestructureFails(r)
        \/ RejectInvalidRequest(r)
        \/ RejectInvalidMethod(r)
        \/ RejectAgentNotFound(r)
        \/ RejectMessageRequired(r)
        \/ RejectInvalidMessage(r)
        \/ TranslateThrows(r)
        \/ CallGenerate(r)
        \/ GenerateResolves(r)
        \/ GenerateResolvesUndefined(r)
        \/ GenerateRejects(r)

Spec == Init /\ [][Next]_vars

SpecConc == InitConc /\ [][Next]_vars

----------------------------------------------------------------------------
(* Vocabulary of the properties *)

Answered(r) == Len(responses[r]) = 1
Status(r) == responses[r][1].status
ResponseBody(r) == responses[r][1].body
Succeeded(r) == Answered(r) /\ Status(r) = 200
Result(r) == ResponseBody(r).result

\* the posted message, read off the request as posted
PostedMessage(r) ==
    IF req[r].body.params.type = "object" THEN req[r].body.params.message ELSE MsgUndef

\* the body was parsed and its members could be read
BodyRead(r) == req[r].parses /\ req[r].body.type # "null"

\* the five validation checks as the specification words them
FailsEnvelope(r) == req[r].body.jsonrpc # "2.0" \/ req[r].body.id \in {Undef, Null, ""}
FailsMethod(r) == req[r].body.method # "message/send"
FailsLookup(r) == req[r].agentId \notin RegisteredAgents
FailsMessagePresence(r) == PostedMessage(r).type # "object"
FailsMessageShape(r) ==
    \/ PostedMessage(r).kind # "message"
    \/ PostedMessage(r).role = Undef
    \/ PostedMessage(r).parts.type = "undefined"

AnsweredWith(r, status, code) ==
    /\ Answered(r)
    /\ Status(r) = status
    /\ ResponseBody(r).error.code = code
    /\ ResponseBody(r).keys = {"jsonrpc", "id", "error"}

----------------------------------------------------------------------------
(* C1 *)

\* C1: every request, whatever its body, the registry's answer and the agent's
\* outcome, ends with exactly one JSON-RPC response (jsonrpc "2.0", exactly one
\* of result and error) under HTTP status 200, 400, 404 or 500, and no
\* exception leaves the handler.
C1_ExactlyOneResponse ==
    \A r \in Reqs :
        /\ ~escaped[r]
        /\ Len(responses[r]) <= 1
        /\ pc[r] = "done" =>
              /\ Answered(r)
              /\ Status(r) \in {200, 400, 404, 500}
              /\ ResponseBody(r).jsonrpc = "2.0"
              /\ \/ ResponseBody(r).keys = {"jsonrpc", "id", "result"}
                 \/ ResponseBody(r).keys = {"jsonrpc", "id", "error"}

----------------------------------------------------------------------------
(* C2 *)

\* C2: for every request whose body parses, the first failing check, in the
\* order envelope, method, agent lookup, message presence, message shape,
\* decides the response: 400/-32600, 400/-32601, 404/-32602, 400/-32602,
\* 400/-32602.
C2_FirstFailingCheckDecides ==
    \A r \in Reqs :
        (pc[r] = "done" /\ req[r].parses) =>
            /\ FailsEnvelope(r) => AnsweredWith(r, 400, -32600)
            /\ (~FailsEnvelope(r) /\ FailsMethod(r)) => AnsweredWith(r, 400, -32601)
            /\ (~FailsEnvelope(r) /\ ~FailsMethod(r) /\ FailsLookup(r))
                  => AnsweredWith(r, 404, -32602)
            /\ (~FailsEnvelope(r) /\ ~FailsMethod(r) /\ ~FailsLookup(r)
                   /\ FailsMessagePresence(r))
                  => AnsweredWith(r, 400, -32602)
            /\ (~FailsEnvelope(r) /\ ~FailsMethod(r) /\ ~FailsLookup(r)
                   /\ ~FailsMessagePresence(r) /\ FailsMessageShape(r))
                  => AnsweredWith(r, 400, -32602)

\* The same statement for the bodies whose members can be read (every parsed
\* body but null); it holds, which locates the failure of C2 in the null body.
C2_HoldsForReadableBodies ==
    \A r \in Reqs : req[r].body.type = "null" \/ ~req[r].parses \/
        (pc[r] = "done" =>
            /\ FailsEnvelope(r) => AnsweredWith(r, 400, -32600)
            /\ (~FailsEnvelope(r) /\ FailsMethod(r)) => AnsweredWith(r, 400, -32601)
            /\ (~FailsEnvelope(r) /\ ~FailsMethod(r) /\ FailsLookup(r))
                  => AnsweredWith(r, 404, -32602)
            /\ (~FailsEnvelope(r) /\ ~FailsMethod(r) /\ ~FailsLookup(r)
                   /\ FailsMessagePresence(r))
                  => AnsweredWith(r, 400, -32602)
            /\ (~FailsEnvelope(r) /\ ~FailsMethod(r) /\ ~FailsLookup(r)
                   /\ ~FailsMessagePresence(r) /\ FailsMessageShape(r))
                  => AnsweredWith(r, 400, -32602))

----------------------------------------------------------------------------
(* C3 *)

\* C3: within one request agent.generate is called at most once, and only
\* when the body was read and none of the five checks fails; a request
\* answered with 400 or 404 has not called it.
C3_GenerateOnlyAfterValidation ==
    \A r \in Reqs :
        /\ Len(generateCalls[r]) <= 1
        /\ Len(generateCalls[r]) = 1 =>
              /\ BodyRead(r)
              /\ ~FailsEnvelope(r) /\ ~FailsMethod(r) /\ ~FailsLookup(r)
              /\ ~FailsMessagePresence(r) /\ ~FailsMessageShape(r)
        /\ (Answered(r) /\ Status(r) \in {400, 404}) => generateCalls[r] = <<>>

\* a request that passed the first four checks is answered 400 for its
\* message's shape, the agent untouched
C3_Witness ==
    \E r \in Reqs :
        /\ pc[r] = "done"
        /\ AnsweredWith(r, 400, -32602)
        /\ ~FailsMessagePresence(r) /\ FailsMessageShape(r)
        /\ generateCalls[r] = <<>>

----------------------------------------------------------------------------
(* C4 *)

\* C4 as stated: in every success response result.id is the message's taskId
\* and result.contextId its contextId whenever that member is present,
\* whatever its value; an identifier is generated only for an absent member.
C4_EchoesAnySuppliedId ==
    \A r \in Reqs :
        Succeeded(r) =>
            /\ PostedMessage(r).taskId # Undef => Result(r).id = PostedMessage(r).taskId
            /\ PostedMessage(r).contextId # Undef
                  => Result(r).contextId = PostedMessage(r).contextId
            /\ Result(r).id = RandomUUID(r, "task") => PostedMessage(r).taskId = Undef
            /\ Result(r).contextId = RandomUUID(r, "context")
                  => PostedMessage(r).contextId = Undef

\* C4 as amended: in every success response result.id is the message's taskId
\* and result.contextId its contextId whenever that member is a non-empty
\* string; an identifier is generated for a member that is absent or empty.
C4_EchoesNonEmptySuppliedId ==
    \A r \in Reqs :
        Succeeded(r) =>
            /\ PostedMessage(r).taskId \notin {Undef, ""}
                  => Result(r).id = PostedMessage(r).taskId
            /\ PostedMessage(r).contextId \notin {Undef, ""}
                  => Result(r).contextId = PostedMessage(r).contextId
            /\ PostedMessage(r).taskId \in {Undef, ""}
                  => Result(r).id = RandomUUID(r, "task")
            /\ PostedMessage(r).contextId \in {Undef, ""}
                  => Result(r).contextId = RandomUUID(r, "context")

\* a success response to a message that supplied both identifiers
C4_Witness ==
    \E r \in Reqs :
        /\ Succeeded(r)
        /\ PostedMessage(r).taskId = TaskIdOf(r)
        /\ PostedMessage(r).contextId = ContextIdOf(r)

----------------------------------------------------------------------------
(* C5 *)

\* the InboundMessage invariant of the specification
IsPartSequence(parts) ==
    /\ parts.type = "array"
    /\ \A i \in 1..Len(parts.items) : parts.items[i].type = "object"
SatisfiesInboundMessage(message) ==
    /\ message.type = "object"
    /\ message.kind = "message"
    /\ message.role # Undef
    /\ IsPartSequence(message.parts)
    /\ Len(message.parts.items) > 0

\* C5: a request that passes the envelope, method and lookup checks and whose
\* message violates the InboundMessage invariant (absent, not an object, wrong
\* kind, no role, no parts, empty parts, parts not a sequence of parts) is
\* answered 4xx with code -32602; so every call of the agent is for a message
\* with a non-empty sequence of parts.
C5_InvalidMessageIsRejected ==
    \A r \in Reqs :
        /\ (/\ pc[r] = "done"
            /\ BodyRead(r)
            /\ ~FailsEnvelope(r) /\ ~FailsMethod(r) /\ ~FailsLookup(r)
            /\ ~SatisfiesInboundMessage(PostedMessage(r)))
              => /\ Answered(r)
                 /\ Status(r) \in {400, 404}
                 /\ ResponseBody(r).error.code = -32602
        /\ generateCalls[r] # <<>> =>
              /\ IsPartSequence(PostedMessage(r).parts)
              /\ Len(PostedMessage(r).parts.items) > 0

----------------------------------------------------------------------------
(* C6 *)

\* C6: whenever a failure is raised outside the validation checks, the
\* response is 500 with code -32603 and error.data.details the failure's
\* message; its id is the request's id when the id had been read before the
\* failure, and null otherwise.
C6_FailureBecomesInternalError ==
    \A r \in Reqs :
        (pc[r] = "done" /\ caught[r] # NoError) =>
            /\ AnsweredWith(r, 500, -32603)
            /\ ResponseBody(r).error.hasData
            /\ ResponseBody(r).error.details = caught[r].message
            /\ ResponseBody(r).id = IF BodyRead(r) THEN req[r].body.id ELSE Null

----------------------------------------------------------------------------
(* C7 *)

\* the agent's reply text: its text, or the empty string when it has none
ReplyText(r) ==
    IF agentResponse[r].text \in {Undef, ""} THEN "" ELSE agentResponse[r].text

HistoryShape(r) ==
    LET history == Result(r).history IN
    /\ Len(history) = 2
    /\ history[1].role = PostedMessage(r).role
    /\ history[1].parts = PostedMessage(r).parts
    /\ history[2].role = "agent"
    /\ history[2].parts.type = "array"
    /\ Len(history[2].parts.items) = 1
    /\ history[2].parts.items[1].kind = "text"
    /\ history[2].parts.items[1].text = ReplyText(r)
    /\ history[2].messageId = RandomUUID(r, "reply")
    /\ history[2].messageId # history[1].messageId
    /\ history[1].taskId = Result(r).id
    /\ history[2].taskId = Result(r).id

\* C7 as stated: in every success response history has exactly 2 entries: the
\* inbound message (role and parts unchanged) under its own messageId whenever
\* it has one, a generated one when it has none; then the agent's reply (role
\* "agent", one text part with the reply text); both carry result.id as taskId.
C7_HistoryKeepsAnyMessageId ==
    \A r \in Reqs :
        Succeeded(r) =>
            /\ HistoryShape(r)
            /\ Result(r).history[1].messageId =
                  IF PostedMessage(r).messageId # Undef
                  THEN PostedMessage(r).messageId
                  ELSE RandomUUID(r, "message")

\* C7 as amended: the same, the first entry under the message's own messageId
\* when that is a non-empty string, and under a generated one when the
\* messageId is absent or empty.
C7_HistoryTwoEntries ==
    \A r \in Reqs :
        Succeeded(r) =>
            /\ HistoryShape(r)
            /\ Result(r).history[1].messageId =
                  IF PostedMessage(r).messageId \notin {Undef, ""}
                  THEN PostedMessage(r).messageId
                  ELSE RandomUUID(r, "message")

\* a success response to a message with its own messageId, the agent having
\* produced no text
C7_Witness ==
    \E r \in Reqs :
        /\ Succeeded(r)
        /\ PostedMessage(r).messageId = MessageIdOf(r)
        /\ agentResponse[r].text = Undef
        /\ Len(PostedMessage(r).parts.items) = 2

----------------------------------------------------------------------------
(* C8 *)

\* the serialization the specification expects of each data value posted
ExpectedJSON(data) ==
    CASE data = JObj("x", "1") -> "{\"x\":1}"
      [] data = JStr("hi") -> "\"hi\""

\* one contribution per part, as the specification words it
ExpectedContribution(part) ==
    CASE part.kind = "text" -> part.text
      [] part.kind = "data" -> ExpectedJSON(part.data)
      [] OTHER -> ""

\* the contributions in order, a newline between consecutive ones
RECURSIVE ExpectedContent(_)
ExpectedContent(items) ==
    IF Len(items) = 0 THEN ""
    ELSE IF Len(items) = 1 THEN ExpectedContribution(items[1])
    ELSE ExpectedContent(SubSeq(items, 1, Len(items) - 1))
            \o "\n" \o ExpectedContribution(items[Len(items)])

\* C8: every call of the agent passes a conversation of exactly one element,
\* whose role is the message's role and whose content is the newline-joined
\* contributions of the parts in order (text, JSON of data, "" for any other
\* kind); a message whose parts are all part objects, of whatever kind, is
\* either rejected by a validation check or reaches the agent, so no kind of
\* part fails the request; the message [text "a", data {x:1}] is passed as
\* "a\n{\"x\":1}".
C8_ConversationIsTranslatedMessage ==
    \A r \in Reqs :
        LET message == PostedMessage(r) IN
        /\ generateCalls[r] # <<>> =>
              /\ Len(generateCalls[r][1]) = 1
              /\ generateCalls[r][1][1].role = message.role
              /\ generateCalls[r][1][1].content = ExpectedContent(message.parts.items)
              /\ message.parts.items = <<TextPart("a"), DataPart(JObj("x", "1"))>>
                    => generateCalls[r][1][1].content = "a\n{\"x\":1}"
        /\ (/\ pc[r] \in {"awaiting", "done"}
            /\ BodyRead(r)
            /\ IsPartSequence(message.parts)
            /\ ~(Answered(r) /\ Status(r) \in {400, 404}))
              => Len(generateCalls[r]) = 1

\* the agent was called for a message of two parts, one of them of an
\* unrecognized kind and the other a data part
C8_Witness ==
    \E r \in Reqs :
        /\ Len(generateCalls[r]) = 1
        /\ Len(PostedMessage(r).parts.items) = 2
        /\ PostedMessage(r).parts.items[1].kind = "file"
        /\ PostedMessage(r).parts.items[2].kind = "data"
        /\ generateCalls[r][1][1].content = "\n{\"x\":1}"

----------------------------------------------------------------------------
(* C9 *)

\* the task result of the request, had it been posted as a blocking one
BlockingResponse(r) ==
    LET agentText == AgentText(agentResponse[r])
        responseMessageId == RandomUUID(r, "reply")
    IN Returned(Conf("true", Undef),
                A2AResponse(requestId[r], currentTaskId[r], conversationContext[r],
                            agentText, responseMessageId,
                            Artifacts(agentResponse[r], r),
                            History(PostedMessage(r), currentTaskId[r], agentText,
                                    responseMessageId, r)))

\* C9: whatever the configuration, no response exists while the agent call is
\* pending; every success response follows a completed agent call, has
\* status.state "completed" and the agent's reply as status message, and is
\* the response a blocking request would get.
C9_ConfigurationChangesNothing ==
    \A r \in Reqs :
        /\ pc[r] = "awaiting" => responses[r] = <<>>
        /\ Succeeded(r) =>
              /\ Len(generateCalls[r]) = 1
              /\ agentResponse[r].type = "object"
              /\ Result(r).status.state = "completed"
              /\ Result(r).kind = "task"
              /\ Result(r).status.message.parts.items[1].text = ReplyText(r)
              /\ Len(Result(r).history) = 2
              /\ responses[r][1] = BlockingResponse(r)

\* a success response to a request posted with blocking false and a webhook
C9_Witness ==
    \E r \in Reqs :
        /\ Succeeded(r)
        /\ ConfigurationOf(r).blocking = "false"
        /\ ConfigurationOf(r).url # Undef
        /\ Len(logs[r]) = 1

----------------------------------------------------------------------------
(* C10 *)

\* C10: with several requests in flight, interleaved in any order at the
\* agent call, every response carries the id of its own request or null; a
\* success response carries its own request's task and context identifiers
\* (supplied or generated for it), its own message in the history and its
\* own agent reply; a 500 response carries its own failure's message.
C10_ResponsesAreIsolated ==
    \A r \in Reqs :
        Answered(r) =>
            /\ ResponseBody(r).id =
                  IF BodyRead(r) /\ req[r].body.id \notin {Undef, ""}
                  THEN req[r].body.id ELSE Null
            /\ ResponseBody(r).id \in {ReqIdOf(r), Null}
            /\ Status(r) = 200 =>
                  /\ ResponseBody(r).id = ReqIdOf(r)
                  /\ Result(r).id \in {TaskIdOf(r), RandomUUID(r, "task")}
                  /\ Result(r).contextId \in {ContextIdOf(r), RandomUUID(r, "context")}
                  /\ Result(r).history[1].parts = PostedMessage(r).parts
                  /\ Result(r).history[1].messageId
                        \in {MessageIdOf(r), RandomUUID(r, "message")}
                  /\ \A i \in 1..Len(Result(r).history) :
                        Result(r).history[i].taskId = Result(r).id
                  /\ Result(r).status.message.parts.items[1].text = ReplyText(r)
                  /\ Result(r).history[2].parts.items[1].text \in {"", ReplyOf(r)}
            /\ Status(r) = 500 => ResponseBody(r).error.details = caught[r].message

\* one request has its success response while another, parsed before it was
\* answered or after, is still suspended at its agent call
C10_Witness ==
    \E r1 \in Reqs : \E r2 \in Reqs \ {r1} :
        /\ Succeeded(r1)
        /\ pc[r2] = "awaiting"

====
